---- MODULE Spec2Model ----
(***************************************************************************)
(* The rating/review subsystem of the product catalog                       *)
(* (src/config/db.js, src/models/Shop.js) as a state machine.               *)
(*                                                                          *)
(* Numbers that hold a rating (a rating, a score sum, an average) are kept  *)
(* in half-star units, so that the non-integer 2.5 the validation lets      *)
(* through is representable: Num(n) is the JavaScript integer n.  Quotients *)
(* are exact reduced fractions <<numerator, denominator>>.                  *)
(***************************************************************************)
EXTENDS Integers, Sequences, FiniteSets, TLC

VARIABLES products, now, req, resp, pre, users, inflight, metrics

vars == <<products, now, req, resp, pre, users, inflight, metrics>>

(* ---------------------------- bounds ----------------------------------- *)
MaxRatings == 2      \* longest ratings array the model lets a product hold
MaxTime == 1         \* last value of the clock read by Date.now()
MaxLogins == 2       \* most increments the login counters take

(* ---------------------------- numbers ---------------------------------- *)
Num(n) == 2 * n
TwoAndAHalf == Num(2) + 1

RECURSIVE Gcd(_, _)
Gcd(a, b) == IF b = 0 THEN a ELSE Gcd(b, a % b)

\* a / b for a >= 0, b > 0
Divide(a, b) == LET g == Gcd(a, b) IN <<a \div g, b \div g>>

Zero == <<0, 1>>

(* ---------------------------- identifiers ------------------------------ *)
\* ObjectIds of users.  A 24-digit hex string denotes an ObjectId and is
\* spelled with lower-case or upper-case letters.
ObjectIds == {"a1", "b2"}
HexStrings == [id : ObjectIds, lower : BOOLEAN]

\* Schema cast of ratings[].userId (type ObjectId): the id the string denotes.
castObjectId(s) == s.id

\* ObjectId.prototype.toString(): the lower-case hex spelling.
toString(o) == [id |-> o, lower |-> TRUE]

\* "p1" is the identifier the store assigns to the product it creates,
\* "p2" a well-formed identifier that no product ever has.
AssignedIds == {"p1"}
ProductIds == AssignedIds \cup {"p2"}

Null == [null |-> TRUE]

(* ---------------------------- request inputs --------------------------- *)
Restrict(f, D) == [k \in D |-> f[k]]

Has(body, field) == field \in DOMAIN body

UserIdInputs == {[id |-> "a1", lower |-> TRUE], [id |-> "a1", lower |-> FALSE],
                 [id |-> "b2", lower |-> TRUE]}

\* the rating values a user sends: between them 1, 2.5 and 5 all occur
RatingsSentBy(userId) ==
    IF userId.id = "a1" THEN IF userId.lower THEN {Num(1), Num(5)} ELSE {Num(5)}
    ELSE {TwoAndAHalf, Num(5)}

\* bodies that carry a userId and a rating of 1, 2.5 or 5, with a review or
\* without the review field
RatedBodies ==
    {Restrict(b, D) : b \in {f \in [userId : UserIdInputs,
                                    rating : {Num(1), TwoAndAHalf, Num(5)},
                                    review : {"good"}] :
                                f.rating \in RatingsSentBy(f.userId)},
                      D \in {{"userId", "rating", "review"}, {"userId", "rating"}}}

\* bodies with an empty review, a field missing, or a rating of 0 or 6
EdgeBodies ==
    {[userId |-> [id |-> "a1", lower |-> TRUE], rating |-> Num(5), review |-> ""],
     [userId |-> [id |-> "b2", lower |-> TRUE], rating |-> Num(1), review |-> ""],
     [userId |-> [id |-> "a1", lower |-> TRUE], rating |-> Num(0)],
     [userId |-> [id |-> "a1", lower |-> TRUE], rating |-> Num(6)],
     [userId |-> [id |-> "b2", lower |-> TRUE], rating |-> Num(6), review |-> "good"],
     [userId |-> [id |-> "a1", lower |-> TRUE]],
     [rating |-> Num(5)],
     [review |-> "good"]}

Bodies == RatedBodies \cup EdgeBodies

\* the rate requests: any body for the product, a few for the identifier that
\* no product has
RateRequests ==
    (AssignedIds \X Bodies)
    \cup ((ProductIds \ AssignedIds) \X
            (EdgeBodies \cup {b \in RatedBodies : b.rating = Num(5) /\ b.userId.lower}))

(* ---------------------------- the Product model ------------------------ *)
\* new Product({...}): ratings [], avgRating and totalRatings at their defaults
NewProduct == [ratings |-> <<>>, avgRating |-> Zero, totalRatings |-> 0]

RECURSIVE reduce(_)
\* this.ratings.reduce((sum, item) => sum + item.rating, 0)
reduce(ratings) ==
    IF ratings = <<>> THEN 0
    ELSE reduce(SubSeq(ratings, 1, Len(ratings) - 1)) + ratings[Len(ratings)].rating

\* productSchema.pre("save")
preSave(doc) ==
    IF Len(doc.ratings) > 0
    THEN LET totalScore == reduce(doc.ratings)
         IN  [doc EXCEPT !.avgRating = Divide(totalScore, Len(doc.ratings)),
                         !.totalRatings = Len(doc.ratings)]
    ELSE doc

\* product.save(): the hook runs, then the document is written
save(id, doc) == [products EXCEPT ![id] = preSave(doc)]

\* a lookup that hands out a fresh document for an unknown id
findByIdOrNew(id) == IF products[id] = Null THEN NewProduct ELSE products[id]

\* Product.findById(id)
findById(id) == products[id]

(* ---------------------------- helpers ---------------------------------- *)
\* ratings.findIndex(r => r.userId.toString() === userId); indices are 1-based
\* here, and 0 stands for JavaScript's -1
findIndex(ratings, userId) ==
    LET hits == {i \in 1..Len(ratings) : toString(ratings[i].userId) = userId}
    IN  IF hits = {} THEN 0 ELSE CHOOSE i \in hits : \A j \in hits : i <= j

RECURSIVE filterSame(_, _)
\* the filter with its test inverted
filterSame(ratings, userId) ==
    IF ratings = <<>> THEN <<>>
    ELSE LET rest == filterSame(Tail(ratings), userId)
         IN  IF toString(Head(ratings).userId) = userId
             THEN <<Head(ratings)>> \o rest ELSE rest

RECURSIVE filterOthers(_, _)
\* ratings.filter(r => r.userId.toString() !== userId)
filterOthers(ratings, userId) ==
    IF ratings = <<>> THEN <<>>
    ELSE LET rest == filterOthers(Tail(ratings), userId)
         IN  IF toString(Head(ratings).userId) # userId
             THEN <<Head(ratings)>> \o rest ELSE rest

\* String.prototype.trim() on the review texts of the model
Whitespace == {" ", "  "}
trim(s) == IF s \in Whitespace THEN "" ELSE s

RECURSIVE filterReviews(_)
\* ratings.filter(r => r.review && r.review.trim() !== "")
filterReviews(ratings) ==
    IF ratings = <<>> THEN <<>>
    ELSE LET rest == filterReviews(Tail(ratings))
         IN  IF Head(ratings).review # "" /\ trim(Head(ratings).review) # ""
             THEN <<Head(ratings)>> \o rest ELSE rest

RECURSIVE insertDesc(_, _)
\* put e after every element whose createdAt is >= its own (stable)
insertDesc(sorted, e) ==
    IF sorted = <<>> THEN <<e>>
    ELSE IF Head(sorted).createdAt >= e.createdAt
         THEN <<Head(sorted)>> \o insertDesc(Tail(sorted), e)
         ELSE <<e>> \o sorted

RECURSIVE insertAsc(_, _)
insertAsc(sorted, e) ==
    IF sorted = <<>> THEN <<e>>
    ELSE IF Head(sorted).createdAt <= e.createdAt
         THEN <<Head(sorted)>> \o insertAsc(Tail(sorted), e)
         ELSE <<e>> \o sorted

RECURSIVE sortAsc(_)
\* the sort with its comparator reversed: a.createdAt - b.createdAt
sortAsc(list) ==
    IF list = <<>> THEN <<>>
    ELSE insertAsc(sortAsc(SubSeq(list, 1, Len(list) - 1)), list[Len(list)])

RECURSIVE sortDesc(_)
\* .sort((a, b) => b.createdAt - a.createdAt), a stable sort
sortDesc(list) ==
    IF list = <<>> THEN <<>>
    ELSE insertDesc(sortDesc(SubSeq(list, 1, Len(list) - 1)), list[Len(list)])

Stars == {Num(1), Num(2), Num(3), Num(4), Num(5)}

\* the ratingCounts object after the forEach: the five initial keys and one
\* more key for every other rating value met
ratingCounts(ratings) ==
    [k \in Stars \cup {ratings[i].rating : i \in 1..Len(ratings)} |->
        Cardinality({i \in 1..Len(ratings) : ratings[i].rating = k})]

(* ---------------------------- state ------------------------------------ *)
NoRequest == [op |-> "none"]
NoResponse == [status |-> 0]

\* the requests the server works on at a time; Idle: none in this slot
Procs == {1, 2}
Idle == [op |-> "idle"]

Init ==
    /\ products = [id \in ProductIds |-> Null]
    /\ now = 0
    /\ req = NoRequest
    /\ resp = NoResponse
    /\ pre = [id \in ProductIds |-> Null]
    /\ users = <<>>
    /\ inflight = [p \in Procs |-> Idle]
    /\ metrics = [successful_logins |-> 0, failed_login_attempts |-> 0]

\* the clock read by Date.now() advances between requests
Tick ==
    /\ now < MaxTime
    /\ now' = now + 1
    /\ UNCHANGED <<products, req, resp, pre, users, inflight, metrics>>

\* what every handler leaves behind: the request, the store it started from
Handled(request, response, store) ==
    /\ req' = request
    /\ resp' = response
    /\ pre' = products
    /\ products' = store
    /\ UNCHANGED <<now, users, inflight, metrics>>

(* ---------------------------- handlers --------------------------------- *)
\* router.post("/"): complete says whether the body has all required fields
Created(ids, complete) ==
    LET request == [op |-> "create", complete |-> complete] IN
    IF ~complete
    THEN Handled(request, [status |-> 400, error |-> "All fields are required."], products)
    ELSE \E id \in ids :
            /\ products[id] = Null
            /\ Handled(request, [status |-> 201, json |-> preSave(NewProduct)],
                       save(id, NewProduct))

\* the catalog of the rating scenarios holds the products of AssignedIds
CreateProduct(complete) == Created(AssignedIds, complete)

\* the validation with its lower limit off by one
InvalidRateExclusive(body) ==
    \/ ~Has(body, "userId")
    \/ ~Has(body, "rating")
    \/ body.rating = 0
    \/ body.rating <= Num(1)
    \/ body.rating > Num(5)

\* !userId || !rating || rating < 1 || rating > 5
InvalidRate(body) ==
    \/ ~Has(body, "userId")
    \/ ~Has(body, "rating")
    \/ body.rating = 0
    \/ body.rating < Num(1)
    \/ body.rating > Num(5)

\* the ratings array after the update-in-place or the push
Rated(ratings, body) ==
    LET existingRatingIndex == findIndex(ratings, body.userId) IN
    IF existingRatingIndex > 0
    THEN [ratings EXCEPT ![existingRatingIndex] =
             [@ EXCEPT !.rating = body.rating,
                       !.review = IF Has(body, "review") /\ body.review # ""
                                  THEN body.review ELSE @,
                       !.createdAt = now]]
    ELSE Append(ratings, [userId |-> castObjectId(body.userId),
                          rating |-> body.rating,
                          review |-> IF Has(body, "review") THEN body.review ELSE "",
                          createdAt |-> now])

\* router.post("/:id/rate")
Rate(id, body) ==
    LET request == [op |-> "rate", id |-> id, body |-> body, at |-> now]
        product == findById(id)
    IN
    IF InvalidRate(body)
    THEN Handled(request,
                 [status |-> 400, error |-> "Valid userId and rating (1-5) are required."],
                 products)
    ELSE IF product = Null
    THEN Handled(request, [status |-> 404, error |-> "Product not found."], products)
    ELSE LET doc == [product EXCEPT !.ratings = Rated(product.ratings, body)] IN
         /\ Len(doc.ratings) <= MaxRatings
         /\ Handled(request, [status |-> 200, json |-> preSave(doc)], save(id, doc))

\* router.get("/:id/ratings")
GetRatings(id) ==
    LET request == [op |-> "ratings", id |-> id]
        product == findById(id)
    IN
    IF product = Null
    THEN Handled(request, [status |-> 404, error |-> "Product not found."], products)
    ELSE Handled(request,
                 [status |-> 200,
                  json |-> [productId |-> id,
                            avgRating |-> product.avgRating,
                            totalRatings |-> product.totalRatings,
                            ratingCounts |-> ratingCounts(product.ratings)]],
                 products)

\* router.get("/:id/reviews")
GetReviews(id) ==
    LET request == [op |-> "reviews", id |-> id]
        product == findById(id)
    IN
    IF product = Null
    THEN Handled(request, [status |-> 404, error |-> "Product not found."], products)
    ELSE LET reviews == sortDesc(filterReviews(product.ratings)) IN
         Handled(request,
                 [status |-> 200,
                  json |-> [productId |-> id,
                            totalReviews |-> Len(reviews),
                            reviews |-> reviews]],
                 products)

\* router.delete("/:productId/ratings/:userId")
DeleteRating(productId, userId) ==
    LET request == [op |-> "deleteRating", id |-> productId, userId |-> userId]
        product == findById(productId)
    IN
    IF product = Null
    THEN Handled(request, [status |-> 404, error |-> "Product not found."], products)
    ELSE LET initialRatingsLength == Len(product.ratings)
             doc == [product EXCEPT !.ratings = filterOthers(product.ratings, userId)]
         IN  IF Len(doc.ratings) = initialRatingsLength
             THEN Handled(request,
                          [status |-> 404, error |-> "Rating not found for this user."],
                          products)
             ELSE Handled(request,
                          [status |-> 200, message |-> "Rating deleted successfully."],
                          save(productId, doc))

Next ==
    \/ Tick
    \/ \E complete \in BOOLEAN : CreateProduct(complete)
    \/ \E r \in RateRequests : Rate(r[1], r[2])
    \/ \E id \in ProductIds : GetRatings(id)
    \/ \E id \in ProductIds : GetReviews(id)
    \/ \E id \in ProductIds, userId \in UserIdInputs : DeleteRating(id, userId)

Spec == Init /\ [][Next]_vars


(* ======================================================================= *)
(* Properties                                                              *)
(* ======================================================================= *)

\* the arithmetic mean of the rating values, 0 for no ratings
Mean(ratings) == IF ratings = <<>> THEN Zero ELSE Divide(reduce(ratings), Len(ratings))

\* indices of the entries that belong to the user with ObjectId u
EntriesOf(ratings, u) == {i \in 1..Len(ratings) : ratings[i].userId = u}

RateHandled == req.op = "rate"
DeleteHandled == req.op = "deleteRating"

\* C1: every persisted product has totalRatings equal to the number of its
\* rating entries and avgRating equal to their mean, 0 when there are none.
C1_AggregatesConsistent ==
    \A id \in ProductIds :
        products[id] # Null =>
            /\ products[id].totalRatings = Len(products[id].ratings)
            /\ products[id].avgRating = Mean(products[id].ratings)

\* C2: the ratings of a product hold at most one entry per user.
C2_OneRatingPerUser ==
    \A id \in ProductIds :
        products[id] # Null =>
            \A u \in ObjectIds : Cardinality(EntriesOf(products[id].ratings, u)) <= 1

\* C3: rating statistics of a product without ratings are avgRating 0,
\* totalRatings 0 and a count of 0 for each of the five star values.
C3_EmptyStatsZero ==
    (req.op = "ratings" /\ resp.status = 200 /\ products[req.id].ratings = <<>>) =>
        /\ resp.json.avgRating = Zero
        /\ resp.json.totalRatings = 0
        /\ \A k \in Stars : resp.json.ratingCounts[k] = 0

\* C4: deleting the rating of a user who has one, named by the identifier as
\* the store prints it, succeeds, lowers totalRatings by exactly one and
\* leaves no entry of that user in the ratings that statistics and reviews
\* are computed from.
C4_DeleteLowersTotalByOne ==
    (/\ DeleteHandled
     /\ pre[req.id] # Null
     /\ req.userId.lower
     /\ EntriesOf(pre[req.id].ratings, req.userId.id) # {}) =>
        /\ resp.status = 200
        /\ products[req.id].totalRatings = pre[req.id].totalRatings - 1
        /\ EntriesOf(products[req.id].ratings, req.userId.id) = {}
        /\ \A i \in 1..Len(sortDesc(filterReviews(products[req.id].ratings))) :
              sortDesc(filterReviews(products[req.id].ratings))[i].userId # req.userId.id

\* C5: delete rating answers 404 for a product that does not exist and 404
\* with another message for a product without a rating by that user, and
\* the store stays as it was.
C5_DeleteNotFound ==
    DeleteHandled =>
        /\ pre[req.id] = Null =>
              /\ resp.status = 404
              /\ resp.error = "Product not found."
              /\ products = pre
        /\ (pre[req.id] # Null /\ EntriesOf(pre[req.id].ratings, req.userId.id) = {}) =>
              /\ resp.status = 404
              /\ resp.error # "Product not found."
              /\ products = pre

C5_Witness ==
    /\ DeleteHandled
    /\ pre[req.id] # Null
    /\ pre[req.id].ratings # <<>>
    /\ EntriesOf(pre[req.id].ratings, req.userId.id) = {}
    /\ resp.status = 404

\* C6: upsert rating answers 400 and leaves the store as it was when userId
\* or rating is absent or rating is below 1 or above 5; with a userId and a
\* rating of 1 or 5 on an existing product it answers 200.
C6_RateValidation ==
    RateHandled =>
        /\ (\/ "userId" \notin DOMAIN req.body
            \/ "rating" \notin DOMAIN req.body
            \/ req.body.rating \notin Num(1)..Num(5)) =>
              /\ resp.status = 400
              /\ products = pre
        /\ (/\ {"userId", "rating"} \subseteq DOMAIN req.body
            /\ req.body.rating \in {Num(1), Num(5)}
            /\ pre[req.id] # Null) =>
              resp.status = 200

C6_Witness ==
    /\ RateHandled
    /\ pre[req.id] # Null
    /\ {"userId", "rating"} \subseteq DOMAIN req.body
    /\ req.body.rating = Num(1)
    /\ resp.status = 200

\* C7: upsert rating with a userId and a rating within 1..5 for a product
\* that does not exist answers 404 and stores neither a product nor a rating.
C7_RateUnknownProduct ==
    (/\ RateHandled
     /\ {"userId", "rating"} \subseteq DOMAIN req.body
     /\ req.body.rating \in Num(1)..Num(5)
     /\ pre[req.id] = Null) =>
        /\ resp.status = 404
        /\ products = pre

C7_Witness ==
    /\ RateHandled
    /\ {"userId", "rating"} \subseteq DOMAIN req.body
    /\ req.body.rating \in Num(1)..Num(5)
    /\ pre[req.id] = Null
    /\ resp.status = 404
    /\ \E id \in ProductIds : products[id] # Null

\* the entry an upsert is to leave for its user: prior is the user's entry
\* before the request, or Null
Upserted(prior, body, t) ==
    [userId |-> castObjectId(body.userId),
     rating |-> body.rating,
     review |-> IF "review" \in DOMAIN body /\ body.review # "" THEN body.review
                ELSE IF prior = Null THEN "" ELSE prior.review,
     createdAt |-> t]

\* C8: a successful upsert for user U changes only U's entry: an existing
\* entry of U is updated where it stands and the length stays, otherwise one
\* new entry is appended; every other entry is untouched.
C8_UpsertTouchesOnlyOwnEntry ==
    (RateHandled /\ resp.status = 200) =>
        LET old == pre[req.id].ratings
            new == products[req.id].ratings
            mine == EntriesOf(old, castObjectId(req.body.userId))
        IN  IF mine # {}
            THEN /\ Len(new) = Len(old)
                 /\ \A i \in 1..Len(old) :
                       new[i] = IF i \in mine THEN Upserted(old[i], req.body, req.at)
                                ELSE old[i]
            ELSE new = Append(old, Upserted(Null, req.body, req.at))

\* C9: an upsert repeated with the same arguments right after it succeeded
\* leaves the number of ratings, avgRating and totalRatings as the first
\* call left them.
C9_UpsertIdempotent ==
    [][(/\ RateHandled
        /\ resp.status = 200
        /\ req'.op = "rate"
        /\ req'.id = req.id
        /\ req'.body = req.body
        /\ pre' = products
        /\ resp'.status = 200) =>
            /\ Len(products'[req.id].ratings) = Len(products[req.id].ratings)
            /\ products'[req.id].avgRating = products[req.id].avgRating
            /\ products'[req.id].totalRatings = products[req.id].totalRatings]_vars

\* C10: rating statistics of an existing product carry a histogram with
\* exactly the keys 1..5, each with the number of entries of that value, the
\* five counts adding up to the number of entries; for a product that does
\* not exist the answer is 404.
C10_Histogram ==
    req.op = "ratings" =>
        IF pre[req.id] = Null THEN resp.status = 404
        ELSE LET ratings == products[req.id].ratings
                 counts == resp.json.ratingCounts
             IN  /\ resp.status = 200
                 /\ DOMAIN counts = Stars
                 /\ \A k \in Stars :
                       counts[k] = Cardinality({i \in 1..Len(ratings) : ratings[i].rating = k})
                 /\ counts[Num(1)] + counts[Num(2)] + counts[Num(3)]
                       + counts[Num(4)] + counts[Num(5)] = Len(ratings)

(* ======================================================================= *)
(* Reviews with blank texts                                                *)
(* ======================================================================= *)

\* rate requests whose review is a text, blanks only, empty or left out
ReviewBodies ==
    {Restrict(b, D) : b \in [userId : UserIdInputs,
                             rating : {Num(5)},
                             review : {"good", " ", ""}],
                      D \in {{"userId", "rating", "review"}, {"userId", "rating"}}}

NextReviews ==
    \/ Tick
    \/ CreateProduct(TRUE)
    \/ \E id \in AssignedIds, body \in ReviewBodies : Rate(id, body)
    \/ \E id \in ProductIds : GetReviews(id)
    \/ \E id \in AssignedIds, userId \in UserIdInputs : DeleteRating(id, userId)

SpecReviews == Init /\ [][NextReviews]_vars

\* how often the entry e occurs in the list
Count(list, e) == Cardinality({i \in 1..Len(list) : list[i] = e})

\* a review text that is not empty once blanks are trimmed off
NonBlank(text) == text # "" /\ text \notin Whitespace

\* C11: list reviews of an existing product returns exactly the entries with
\* a review that is non-empty after trimming, each once, latest createdAt
\* first (an entry updated in place counts with its new createdAt), and
\* reports how many they are.
C11_ListReviews ==
    (req.op = "reviews" /\ pre[req.id] # Null) =>
        /\ resp.status = 200
        /\ LET ratings == products[req.id].ratings
               reviews == resp.json.reviews
           IN  /\ \A e \in {ratings[i] : i \in 1..Len(ratings)}
                             \cup {reviews[i] : i \in 1..Len(reviews)} :
                      Count(reviews, e) = IF NonBlank(e.review) THEN Count(ratings, e) ELSE 0
               /\ \A i, j \in 1..Len(reviews) :
                      i < j => reviews[i].createdAt >= reviews[j].createdAt
               /\ resp.json.totalReviews = Len(reviews)

\* two reviews listed latest first, in another order than they are stored
C11_Witness ==
    /\ req.op = "reviews"
    /\ resp.status = 200
    /\ Len(products[req.id].ratings) = 2
    /\ resp.json.totalReviews = 2
    /\ resp.json.reviews = <<products[req.id].ratings[2], products[req.id].ratings[1]>>
    /\ resp.json.reviews[1].createdAt > resp.json.reviews[2].createdAt

(* ======================================================================= *)
(* Top-rated products and the order of the GET routes                      *)
(* ======================================================================= *)

\* parseInt of a query value; an absent value (undefined) parses to NaN
Numerals == [n \in {"0", "1", "2"} |-> IF n = "0" THEN 0 ELSE IF n = "1" THEN 1 ELSE 2]
NaN == [nan |-> TRUE]
parseInt(query, field) ==
    IF Has(query, field) /\ query[field] \in DOMAIN Numerals
    THEN [nan |-> FALSE, n |-> Numerals[query[field]]]
    ELSE NaN

\* value || fallback: NaN and 0 are falsy
OrDefault(value, fallback) == IF value.nan \/ value.n = 0 THEN fallback ELSE value.n

QueryValues == DOMAIN Numerals \cup {"abc"}
Queries ==
    {Restrict(q, D) : q \in [limit : {"0", "1", "abc"}, minRatings : QueryValues],
                      D \in SUBSET {"limit", "minRatings"}}

\* a >= b for two averages kept as fractions
Geq(a, b) == a[1] * b[2] >= b[1] * a[2]

\* the orders .sort({ avgRating: -1 }) may produce for the documents of ids;
\* the order of equal averages is left to the database
sortByAvgRating(ids) ==
    {order \in [1..Cardinality(ids) -> ids] :
        /\ \A i, j \in DOMAIN order : i # j => order[i] # order[j]
        /\ \A i, j \in DOMAIN order :
               i < j => Geq(products[order[i]].avgRating, products[order[j]].avgRating)}

\* the document as the response carries it
toJSON(id) == [id |-> id] @@ products[id]

\* the responses of router.get("/top-rated") to a query
topRated(query) ==
    LET limit == OrDefault(parseInt(query, "limit"), 10)
        minRatings == OrDefault(parseInt(query, "minRatings"), 1)
        found == {id \in ProductIds :
                     products[id] # Null /\ products[id].totalRatings >= minRatings}
    IN  {[status |-> 200,
          json |-> LET listed == SubSeq(order, 1, IF limit < Len(order) THEN limit ELSE Len(order))
                   IN  [total |-> Len(listed), products |-> [i \in DOMAIN listed |-> toJSON(listed[i])]]] :
         order \in sortByAvgRating(found)}

\* the handler of router.get("/top-rated") run on a query
TopRated(query) ==
    \E response \in topRated(query) :
        Handled([op |-> "topRated", query |-> query], response, products)

\* the response of router.get("/:id"): an id that is no ObjectId fails the cast
getById(id) ==
    IF id \notin ProductIds
    THEN [status |-> 500, error |-> "Error fetching product."]
    ELSE IF findById(id) = Null
         THEN [status |-> 404, error |-> "Product not found."]
         ELSE [status |-> 200, json |-> toJSON(id)]

\* the GET routes of the router in the order they are registered
GetRoutes ==
    << [path |-> <<>>,                         handler |-> "list"],
       [path |-> <<":id">>,                    handler |-> "getById"],
       [path |-> <<"seller", ":sellerName">>,  handler |-> "seller"],
       [path |-> <<"search">>,                 handler |-> "search"],
       [path |-> <<"available">>,              handler |-> "available"],
       [path |-> <<"categories">>,             handler |-> "categories"],
       [path |-> <<"featured">>,               handler |-> "featured"],
       [path |-> <<"top-sellers">>,            handler |-> "topSellers"],
       [path |-> <<"stats", "summary">>,       handler |-> "summary"],
       [path |-> <<"top-rated">>,              handler |-> "topRated"],
       [path |-> <<":id", "ratings">>,         handler |-> "ratings"],
       [path |-> <<":id", "reviews">>,         handler |-> "reviews"] >>

Params == {":id", ":sellerName"}

\* the route pattern matches the request path
Matches(pattern, path) ==
    /\ Len(pattern) = Len(path)
    /\ \A i \in DOMAIN pattern : pattern[i] \in Params \/ pattern[i] = path[i]

\* the handler of the first registered route that matches
dispatch(path) ==
    LET matching == {i \in DOMAIN GetRoutes : Matches(GetRoutes[i].path, path)}
    IN  IF matching = {} THEN "none"
        ELSE GetRoutes[CHOOSE i \in matching : \A j \in matching : i <= j].handler

Paths == {<<"top-rated">>, <<"p1">>, <<"p2">>, <<"featured">>}

\* a GET request to the router
Get(path, query) ==
    LET request == [op |-> "GET", path |-> path, query |-> query]
        handler == dispatch(path)
    IN  IF handler = "getById"
        THEN Handled(request, getById(path[1]), products)
        ELSE IF handler = "topRated"
             THEN \E response \in topRated(query) : Handled(request, response, products)
             ELSE FALSE

\* two users, the lowest and the highest rating
TopBodies == [userId : {u \in UserIdInputs : u.lower}, rating : {Num(1), Num(5)}]

NextTop ==
    \/ Created(ProductIds, TRUE)
    \/ \E id \in ProductIds, body \in TopBodies : Rate(id, body)
    \/ \E id \in ProductIds, userId \in {u \in UserIdInputs : u.lower} : DeleteRating(id, userId)
    \/ \E query \in Queries : TopRated(query)
    \/ \E path \in Paths, query \in Queries : Get(path, query)

SpecTop == Init /\ [][NextTop]_vars

\* the value a query supplies for a field, the fallback when it supplies none
Supplied(query, field, fallback) ==
    IF Has(query, field) THEN Numerals[query[field]] ELSE fallback

\* C12: top-rated returns only products whose stored totalRatings is at
\* least minRatings, by non-increasing avgRating, at most limit of them; a
\* supplied limit or minRatings is the value used, minRatings = 0 included
\* (every product qualifies then), and 10 and 1 stand in only for omitted ones.
C12_TopRatedUsesSuppliedValues ==
    (/\ req.op = "topRated"
     /\ Has(req.query, "limit") => req.query.limit \in DOMAIN Numerals \ {"0"}
     /\ Has(req.query, "minRatings") => req.query.minRatings \in DOMAIN Numerals) =>
        /\ resp.status = 200
        /\ LET limit == Supplied(req.query, "limit", 10)
               minRatings == Supplied(req.query, "minRatings", 1)
               listed == resp.json.products
               qualifying == {id \in ProductIds :
                                 products[id] # Null /\ products[id].totalRatings >= minRatings}
           IN  /\ \A i \in DOMAIN listed :
                      listed[i].id \in qualifying /\ listed[i] = toJSON(listed[i].id)
               /\ \A i, j \in DOMAIN listed :
                      i < j => /\ listed[i].id # listed[j].id
                               /\ Geq(listed[i].avgRating, listed[j].avgRating)
               /\ Len(listed) = IF limit < Cardinality(qualifying)
                                THEN limit ELSE Cardinality(qualifying)
               /\ resp.json.total = Len(listed)

\* C13: a GET of /top-rated is dispatched to the top-rated handler and
\* answered 200 with the list of products.
C13_TopRatedDispatched ==
    (req.op = "GET" /\ req.path = <<"top-rated">>) =>
        /\ dispatch(req.path) = "topRated"
        /\ resp.status = 200
        /\ resp \in topRated(req.query)

\* C14: top-rated with minRatings = m >= 1 never returns a product whose
\* ratings hold fewer than m entries at that time.
C14_TopRatedCurrentCount ==
    (/\ req.op = "topRated"
     /\ Has(req.query, "minRatings")
     /\ req.query.minRatings \in DOMAIN Numerals \ {"0"}) =>
        \A i \in DOMAIN resp.json.products :
            Len(products[resp.json.products[i].id].ratings) >= Numerals[req.query.minRatings]

(* ======================================================================= *)
(* Rating mutations in flight at the same time                             *)
(* ======================================================================= *)
(* A handler awaits findById, changes the document in memory and awaits    *)
(* save(). save() runs the hook and sends the changes of the document as   *)
(* one update of the stored document: a push is sent as $push and          *)
(* increments __v; a change of ratings[i].field is sent as a $set of that  *)
(* position, for the __v that was read; an assignment of the whole array   *)
(* is sent as a $set of it, for the __v that was read, and increments __v. *)
(* A path the hook assigns its old value is not sent. No stored document   *)
(* with the __v asked for is a VersionError. The slot of a request holds   *)
(* `behind`: __v has been incremented since the document was read.         *)

\* how the handler changed ratings: product.ratings.push(...),
\* product.ratings[i].x = ..., or product.ratings = ...
pushChange == [op |-> "push"]
setChange(index, review) == [op |-> "set", index |-> index, review |-> review]
assignChange == [op |-> "assign"]

checksVersion(change) == change.op \in {"set", "assign"}
incrementsVersion(change) == change.op \in {"push", "assign"}

\* only a path whose value changed in memory is part of the update
setIfModified(stored, snapshot, doc, field) ==
    IF doc[field] # snapshot[field] THEN doc[field] ELSE stored[field]

\* a save that writes the whole document in memory over the stored one
replaceDocument(stored, snapshot, doc, change) == doc

\* the stored document after the update save() sends
applyDelta(stored, snapshot, doc, change) ==
    [ratings |->
        IF change.op = "push"
        THEN Append(stored.ratings, doc.ratings[Len(doc.ratings)])
        ELSE IF change.op = "set"
        THEN [stored.ratings EXCEPT ![change.index] =
                 [@ EXCEPT !.rating = doc.ratings[change.index].rating,
                           !.review = IF change.review
                                      THEN doc.ratings[change.index].review ELSE @,
                           !.createdAt = doc.ratings[change.index].createdAt]]
        ELSE doc.ratings,
     avgRating |-> setIfModified(stored, snapshot, doc, "avgRating"),
     totalRatings |-> setIfModified(stored, snapshot, doc, "totalRatings")]

\* the request of slot p has read the document and called save()
Called(p, request, snapshot, doc, change) ==
    /\ inflight' = [inflight EXCEPT ![p] =
                       [op |-> "save", request |-> request, snapshot |-> snapshot,
                        doc |-> preSave(doc), change |-> change,
                        behind |-> FALSE, since |-> {}]]
    /\ UNCHANGED <<products, now, req, resp, pre, users, metrics>>

\* router.post("/:id/rate") up to the call of save()
RateRead(p, id, body) ==
    LET request == [op |-> "rate", id |-> id, body |-> body, at |-> now]
        product == findById(id)
    IN
    /\ inflight[p] = Idle
    /\ ~InvalidRate(body)
    /\ IF product = Null
       THEN Handled(request, [status |-> 404, error |-> "Product not found."], products)
       ELSE LET existingRatingIndex == findIndex(product.ratings, body.userId)
                doc == [product EXCEPT !.ratings = Rated(product.ratings, body)]
            IN  /\ Len(doc.ratings) <= MaxRatings
                /\ Called(p, request, product, doc,
                          IF existingRatingIndex > 0
                          THEN setChange(existingRatingIndex,
                                         Has(body, "review") /\ body.review # "")
                          ELSE pushChange)

\* router.delete("/:productId/ratings/:userId") up to the call of save()
DeleteRead(p, productId, userId) ==
    LET request == [op |-> "deleteRating", id |-> productId, userId |-> userId]
        product == findById(productId)
    IN
    /\ inflight[p] = Idle
    /\ IF product = Null
       THEN Handled(request, [status |-> 404, error |-> "Product not found."], products)
       ELSE LET doc == [product EXCEPT !.ratings = filterOthers(product.ratings, userId)]
            IN  IF Len(doc.ratings) = Len(product.ratings)
                THEN Handled(request,
                             [status |-> 404, error |-> "Rating not found for this user."],
                             products)
                ELSE Called(p, request, product, doc, assignChange)

\* await product.save() returns or throws, and the handler answers
Save(p) ==
    LET call == inflight[p] IN
    /\ call # Idle
    /\ LET id == call.request.id
           VersionError == checksVersion(call.change) /\ call.behind
           rate == call.request.op = "rate"
           bump == ~VersionError /\ incrementsVersion(call.change)
       IN  /\ req' = call.request @@ [since |-> call.since]
           /\ pre' = products
           /\ resp' = IF VersionError
                      THEN [status |-> 500,
                            error |-> IF rate THEN "Rating failed." ELSE "Error deleting rating."]
                      ELSE IF rate
                      THEN [status |-> 200, json |-> call.doc]
                      ELSE [status |-> 200, message |-> "Rating deleted successfully."]
           /\ products' = IF VersionError THEN products
                          ELSE [products EXCEPT ![id] =
                                   applyDelta(@, call.snapshot, call.doc, call.change)]
           /\ inflight' = [q \in Procs |->
                              IF q = p THEN Idle
                              ELSE IF inflight[q] = Idle \/ inflight[q].request.id # id
                                      \/ VersionError
                              THEN inflight[q]
                              ELSE [inflight[q] EXCEPT !.behind = @ \/ bump,
                                                       !.since = @ \cup {call.request}]]
    /\ UNCHANGED <<now, users, metrics>>

\* the requests in flight at a time come from different users
UserOf(p) == IF p = 1 THEN [id |-> "a1", lower |-> TRUE] ELSE [id |-> "b2", lower |-> TRUE]

NextConc ==
    \/ Created(AssignedIds, TRUE)
    \/ \E p \in Procs, id \in AssignedIds :
           \E body \in {b \in TopBodies : b.userId = UserOf(p)} : RateRead(p, id, body)
    \/ \E p \in Procs, id \in AssignedIds : DeleteRead(p, id, UserOf(p))
    \/ \E p \in Procs : Save(p)

SpecConc == Init /\ [][NextConc]_vars

\* C15: with rating mutations of different users in flight at the same
\* time, each a read followed later by a write, every stored state of a
\* product a reader can see has avgRating and totalRatings that agree with
\* its ratings (the product with no ratings left is the subject of C3).
C15_ConcurrentAggregatesConsistent ==
    \A id \in ProductIds :
        (products[id] # Null /\ Len(products[id].ratings) > 0) =>
            /\ products[id].totalRatings = Len(products[id].ratings)
            /\ products[id].avgRating = Mean(products[id].ratings)

\* the upserts of other users saved while the request of req was in flight
ConcurrentUpserts ==
    /\ req.op = "rate"
    /\ "since" \in DOMAIN req
    /\ req.since # {}
    /\ \A r \in req.since : r.op = "rate" /\ r.body.userId # req.body.userId

\* the ratings hold an entry of the user with the rating
HasEntry(ratings, userId, rating) ==
    \E i \in 1..Len(ratings) :
        toString(ratings[i].userId) = userId /\ ratings[i].rating = rating

\* C16 as stated: the save of an upsert writes the whole document, so an
\* upsert that succeeds after a concurrent upsert of another user leaves
\* the ratings it held in memory, without the other user's change.
C16_LastWriteWins ==
    (ConcurrentUpserts /\ resp.status = 200) =>
        products[req.id].ratings = resp.json.ratings

\* C16 amended: an upsert that succeeds after concurrent upserts of other
\* users leaves its own entry and an entry of each of those users in the
\* stored ratings; no entry is lost.
C16_ConcurrentUpsertsKeepEntries ==
    (ConcurrentUpserts /\ resp.status = 200) =>
        /\ HasEntry(products[req.id].ratings, req.body.userId, req.body.rating)
        /\ \A r \in req.since :
               \E i \in 1..Len(products[req.id].ratings) :
                   toString(products[req.id].ratings[i].userId) = r.body.userId

\* two users' first ratings read the same empty product; both are saved and
\* the stored totalRatings counts one of them
C16_Witness ==
    /\ ConcurrentUpserts
    /\ resp.status = 200
    /\ pre[req.id].ratings # <<>>
    /\ Len(resp.json.ratings) = 1
    /\ Len(products[req.id].ratings) = 2
    /\ products[req.id].totalRatings = 1

\* C17: a rating mutation is all-or-nothing: an upsert or delete that
\* succeeds leaves the changed ratings stored together with the avgRating and
\* totalRatings recomputed from them, and one that fails (validation, unknown
\* product, no rating of the user, failed write) leaves the store as it was.
C17_AllOrNothing ==
    (RateHandled \/ DeleteHandled) =>
        IF resp.status = 200
        THEN /\ products[req.id] # Null
             /\ products[req.id].totalRatings = Len(products[req.id].ratings)
             /\ products[req.id].avgRating = Mean(products[req.id].ratings)
        ELSE products = pre

(* ======================================================================= *)
(* Users: registration and login                                           *)
(* ======================================================================= *)

\* the files that define the user routes
Variants == {"userRoutes.js", "part_005", "part_006", "part_007"}

\* only userRoutes.js answers its failures through handleError
handleError(message) == [status |-> 500, success |-> FALSE, message |-> message]

\* bcrypt.hash(password, 8) with the salt it draws, and bcrypt.compare
Salts == {"s1", "s2"}

\* the digest of the empty password, whatever the password
hashOfNothing(password, salt) == [salt |-> salt, digest |-> <<salt, "">>]

hash(password, salt) == [salt |-> salt, digest |-> <<salt, password>>]
compare(password, hashed) == hashed.digest = <<hashed.salt, password>>

\* const PROJECT_URLS = {...}; userRoutes.js uses the name and declares none
Declares(variant) == variant # "userRoutes.js"
PROJECT_URLS(variant) ==
    IF variant = "part_006"
    THEN [testing |-> "https://www.example.com/project1",
          project2 |-> "https://www.example.com/project2",
          KrushiGowrava |-> "/store",
          krushigowrava |-> "/store",
          musicApp |-> "/GenAI"]
    ELSE [testing |-> "https://www.example.com/project1",
          project2 |-> "https://www.example.com/project2"]

\* what an object literal inherits: PROJECT_URLS["__proto__"] is
\* Object.prototype, which res.json writes as {}
ObjectPrototype == [key \in {"__proto__"} |-> "{}"]
Undefined == "undefined"

\* PROJECT_URLS[project]
lookup(variant, project) ==
    IF project \in DOMAIN PROJECT_URLS(variant) THEN PROJECT_URLS(variant)[project]
    ELSE IF project \in DOMAIN ObjectPrototype THEN ObjectPrototype[project]
    ELSE Undefined

\* request bodies of /register
Usernames == {"u1", "u2"}
Emails == {"e1", "e2"}
Array(items) == [array |-> TRUE, items |-> items]
NoArray == [array |-> FALSE, value |-> "testing"]
RegisterFields == {"name", "username", "email", "password", "role", "projects"}
CompleteBodies ==
    [name : {"n"}, username : Usernames, email : Emails, password : {"pw"},
     role : {"user"}, projects : {Array(<<"testing">>), Array(<<"__proto__", "nope">>)}]
ABody ==
    [name |-> "n", username |-> "u1", email |-> "e1", password |-> "pw",
     role |-> "user", projects |-> Array(<<"testing">>)]
IncompleteBodies ==
    {Restrict(ABody, RegisterFields \ {f}) : f \in RegisterFields}
    \cup {[ABody EXCEPT !.projects = NoArray], [ABody EXCEPT !.username = ""]}
RegisterBodies == CompleteBodies \cup IncompleteBodies

\* request bodies of /login
LoginFields == {"email", "password", "project"}
ALogin == [email |-> "e1", password |-> "pw", project |-> "testing"]
LoginBodies ==
    [email : Emails, password : {"pw", "px"},
     project : {"testing", "musicApp", "nope", "__proto__"}]
    \cup {Restrict(ALogin, LoginFields \ {f}) : f \in LoginFields}

\* !field for a text field: absent or the empty string
Not(body, field) == ~Has(body, field) \/ body[field] = ""

\* User.findOne(...): the first of the users the filter matches, given by
\* their positions; Null for none
findOne(hits) ==
    IF hits = {} THEN Null ELSE users[CHOOSE i \in hits : \A j \in hits : i <= j]

\* what a user handler leaves behind: the request, the users it started from
Responded(request, response, store) ==
    /\ req' = request
    /\ resp' = response
    /\ pre' = users
    /\ users' = store
    /\ UNCHANGED <<products, now, inflight>>

\* a handler that touches no counter
Answered(request, response, store) ==
    /\ Responded(request, response, store)
    /\ UNCHANGED metrics

\* failedLoginAttemptsCounter.inc() and successfulLoginsCounter.inc(): the
\* counters exist in userRoutes.js alone
inc(variant, counter) ==
    IF variant = "userRoutes.js" THEN [metrics EXCEPT ![counter] = @ + 1] ELSE metrics

\* router.post('/register')
Register(variant, body) ==
    LET request == [op |-> "register", variant |-> variant, body |-> body]
        invalid == \/ \E f \in RegisterFields \ {"projects"} : Not(body, f)
                   \/ ~Has(body, "projects")
                   \/ ~body.projects.array
    IN
    IF invalid
    THEN Answered(request,
                  IF Declares(variant)
                  THEN [status |-> 400, success |-> FALSE,
                        message |-> "Missing or invalid fields in request body"]
                  ELSE handleError("Validation failed"),
                  users)
    ELSE LET existingUser ==
                 findOne({i \in 1..Len(users) :
                             users[i].username = body.username \/ users[i].email = body.email})
         IN  IF existingUser # Null
             THEN Answered(request,
                           IF Declares(variant)
                           THEN [status |-> 409, success |-> FALSE,
                                 message |-> "Username or email already exists"]
                           ELSE handleError("User registration failed"),
                           users)
             ELSE \E salt \in Salts :
                     LET newUser == [name |-> body.name, username |-> body.username,
                                     email |-> body.email,
                                     password |-> hash(body.password, salt),
                                     role |-> body.role, projects |-> body.projects.items]
                     IN  Answered(request,
                                  [status |-> 201, success |-> TRUE,
                                   message |-> "User registered successfully"],
                                  Append(users, newUser))

\* router.post('/login')
Login(variant, body) ==
    LET request == [op |-> "login", variant |-> variant, body |-> body]
        Fail(status, message, logged) ==
            IF Declares(variant)
            THEN [status |-> status, success |-> FALSE, message |-> message]
            ELSE handleError(logged)
    IN
    /\ variant = "userRoutes.js"
          => metrics.successful_logins + metrics.failed_login_attempts < MaxLogins
    /\ IF \E f \in LoginFields : Not(body, f)
       THEN Answered(request,
                     Fail(400, "Missing email, password, or project", "Validation failed"),
                     users)
       ELSE LET user == findOne({i \in 1..Len(users) : users[i].email = body.email})
            IN
            IF user = Null
            THEN /\ metrics' = inc(variant, "failed_login_attempts")
                 /\ Responded(request, Fail(404, "User not found", "User login failed"), users)
            ELSE IF ~compare(body.password, user.password)
            THEN /\ metrics' = inc(variant, "failed_login_attempts")
                 /\ Responded(request,
                              Fail(401, "Invalid credentials", "User login failed"), users)
            ELSE
            /\ metrics' = inc(variant, "successful_logins")
            /\ IF ~\E i \in 1..Len(user.projects) : user.projects[i] = body.project
               THEN Responded(request,
                              Fail(403, "You don't have access to this project",
                                   "User login failed"),
                              users)
               ELSE IF ~Declares(variant)
               THEN Responded(request, handleError("Error during login"), users)
               ELSE LET projectUrl == lookup(variant, body.project) IN
                    IF projectUrl # Undefined
                    THEN Responded(request,
                                   IF variant = "part_007"
                                   THEN [status |-> 200, success |-> TRUE,
                                         project_url |-> projectUrl]
                                   ELSE [status |-> 200, success |-> TRUE,
                                         username |-> user.username,
                                         project_url |-> projectUrl],
                                   users)
                    ELSE Responded(request,
                                   [status |-> 404, success |-> FALSE,
                                    message |-> "Project URL not found"],
                                   users)

NextUsers ==
    \/ \E variant \in Variants, body \in RegisterBodies : Register(variant, body)
    \/ \E variant \in Variants, body \in LoginBodies : Login(variant, body)

SpecUsers == Init /\ [][NextUsers]_vars

\* a registration body that lacks a required field or whose projects is no array
Malformed(body) ==
    \/ RegisterFields \ DOMAIN body # {}
    \/ \E f \in (RegisterFields \ {"projects"}) \cap DOMAIN body : body[f] = ""
    \/ ("projects" \in DOMAIN body /\ ~body.projects.array)

\* the status of a client-fault response
ClientFault == 400..499

\* C18: in every variant of the registration handler a request with a
\* required field missing, or with projects that is not an array, is answered
\* with a client-fault (4xx) status and persists no user.
C18_RegisterValidation ==
    (req.op = "register" /\ Malformed(req.body)) =>
        /\ resp.status \in ClientFault
        /\ users = pre

\* the username or the email of the request belongs to a user already stored
Taken(body, stored) ==
    \E i \in 1..Len(stored) :
        stored[i].username = body.username \/ stored[i].email = body.email

\* C19: a well-formed registration whose username or email is that of a
\* stored user fails as a conflict, with a client-fault status that is
\* neither the one of a validation failure (400) nor the one of an internal
\* error (500), and leaves the users as they were; any other well-formed
\* registration persists exactly one new user, the one of the request.
C19_RegisterConflict ==
    (req.op = "register" /\ ~Malformed(req.body)) =>
        IF Taken(req.body, pre)
        THEN /\ resp.status \in ClientFault \ {400}
             /\ users = pre
        ELSE /\ resp.status = 201
             /\ Len(users) = Len(pre) + 1
             /\ SubSeq(users, 1, Len(pre)) = pre
             /\ users[Len(users)].username = req.body.username
             /\ users[Len(users)].email = req.body.email

\* C20: a login is answered with success and a project URL only if a user
\* with the email exists, the password matches that user's stored hash, the
\* project is one of the user's projects and the project has an entry in
\* the variant's table of project URLs; the URL is that entry.
C20_LoginSuccessOnlyIf ==
    (req.op = "login" /\ resp.status = 200 /\ resp.success) =>
        /\ \E i \in 1..Len(users) :
              /\ users[i].email = req.body.email
              /\ compare(req.body.password, users[i].password)
              /\ \E k \in 1..Len(users[i].projects) : users[i].projects[k] = req.body.project
        /\ Declares(req.variant)
        /\ req.body.project \in DOMAIN PROJECT_URLS(req.variant)
        /\ resp.project_url = PROJECT_URLS(req.variant)[req.body.project]

\* a login request that carries an email, a password and a project
CompleteLogin == req.op = "login" /\ \A f \in LoginFields : f \in DOMAIN req.body /\ req.body[f] # ""

\* the positions of the users with the email of the request
WithEmail == {i \in 1..Len(users) : users[i].email = req.body.email}

\* C21: in every variant of the login handler the three failures are told
\* apart by the response and take precedence in this order: no user with
\* the email (not found, 404), then a password that does not match (bad
\* credentials, 401), then a project that is not one of the user's (not
\* authorized, 403).
C21_LoginFailuresDistinct ==
    CompleteLogin =>
        IF WithEmail = {} THEN resp.status = 404
        ELSE LET user == users[CHOOSE i \in WithEmail : \A j \in WithEmail : i <= j] IN
             IF ~compare(req.body.password, user.password) THEN resp.status = 401
             ELSE (\A k \in 1..Len(user.projects) : user.projects[k] # req.body.project)
                      => resp.status = 403

(* ======================================================================= *)
(* Users: password change, rename and delete                               *)
(* ======================================================================= *)
(* The handlers are the same in userRoutes.js, part_005 and part_006.      *)

\* the first of the positions, 0 for none
First(hits) == IF hits = {} THEN 0 ELSE CHOOSE i \in hits : \A j \in hits : i <= j

\* the filter { $or: [{ username: key }, { email: key }] }
byUsernameOrEmail(key) ==
    {i \in 1..Len(users) : users[i].username = key \/ users[i].email = key}

\* a filter on the email alone
byEmail(key) == {i \in 1..Len(users) : users[i].email = key}

\* the filter { username }
byUsername(key) == {i \in 1..Len(users) : users[i].username = key}

\* the users without the one at the position
Without(list, i) == SubSeq(list, 1, i - 1) \o SubSeq(list, i + 1, Len(list))

NotFound == [status |-> 404, success |-> FALSE, message |-> "User not found"]

\* router.put('/update-password/:username')
UpdatePassword(username, body) ==
    LET request == [op |-> "updatePassword", key |-> username, body |-> body] IN
    IF Not(body, "newPassword")
    THEN Answered(request,
                  [status |-> 400, success |-> FALSE, message |-> "New password is required"],
                  users)
    ELSE \E salt \in Salts :
            LET hashedPassword == hash(body.newPassword, salt)
                updatedUser == First(byUsername(username))
            IN  IF updatedUser = 0
                THEN Answered(request, NotFound, users)
                ELSE Answered(request,
                              [status |-> 200, success |-> TRUE,
                               message |-> "Password updated successfully"],
                              [users EXCEPT ![updatedUser].password = hashedPassword])

\* router.put('/update-name/:username')
UpdateName(username, body) ==
    LET request == [op |-> "updateName", key |-> username, body |-> body]
        updatedUser == First(byUsername(username))
    IN
    IF Not(body, "newName")
    THEN Answered(request,
                  [status |-> 400, success |-> FALSE, message |-> "New name is required"],
                  users)
    ELSE IF updatedUser = 0
    THEN Answered(request, NotFound, users)
    ELSE LET store == [users EXCEPT ![updatedUser].name = body.newName] IN
         Answered(request,
                  [status |-> 200, success |-> TRUE, message |-> "Name updated successfully",
                   updatedUser |-> store[updatedUser]],
                  store)

\* router.delete('/delete-user/:usernameOrEmail')
DeleteUser(usernameOrEmail) ==
    LET request == [op |-> "deleteUser", key |-> usernameOrEmail]
        user == First(byUsernameOrEmail(usernameOrEmail))
    IN
    IF user = 0
    THEN Answered(request, NotFound, users)
    ELSE Answered(request,
                  [status |-> 200, success |-> TRUE, message |-> "User deleted successfully"],
                  Without(users, user))

\* registrations in which one user's username can be another user's email
AccountBodies ==
    [name : {"n"}, username : {"u1", "e1"}, email : {"e1", "e2"}, password : {"pw"},
     role : {"user"}, projects : {Array(<<"testing">>)}]

\* the keys of the requests: usernames, emails and one that no user has
Keys == {"u1", "e1", "e2", "zz"}
PasswordBodies == {[newPassword |-> "px"], [newPassword |-> ""], <<>>}
NameBodies == {[newName |-> "m"], <<>>}

NextAccounts ==
    \/ \E variant \in {"userRoutes.js", "part_006"}, body \in AccountBodies :
           Register(variant, body)
    \/ \E key \in Keys, body \in PasswordBodies : UpdatePassword(key, body)
    \/ \E key \in Keys, body \in NameBodies : UpdateName(key, body)
    \/ \E key \in Keys : DeleteUser(key)

SpecAccounts == Init /\ [][NextAccounts]_vars

Passwords == {"pw", "px"}

\* the stored value is the salted hash of the password and of no other
HashOf(password, stored) ==
    /\ stored.salt \in Salts
    /\ \A p \in Passwords : compare(p, stored) <=> p = password

\* the stored passwords are those the request started from
PasswordsKept == Len(users) = Len(pre) /\ \A i \in 1..Len(users) : users[i].password = pre[i].password

\* C22: after register, update-password, update-name and delete-user
\* requests every stored password is the salted hash, never the plain text,
\* of the password last accepted for the user: a registration stores the
\* hash of its password, a password change stores the hash of the new
\* password for the user it names, and no other request changes a stored
\* password.
C22_PasswordHashOfAccepted ==
    /\ \A i \in 1..Len(users) : \E p \in Passwords : HashOf(p, users[i].password)
    /\ (req.op = "register" /\ resp.status = 201) =>
           /\ SubSeq(users, 1, Len(pre)) = pre
           /\ Len(users) = Len(pre) + 1
           /\ HashOf(req.body.password, users[Len(users)].password)
    /\ (req.op = "updatePassword" /\ resp.status = 200) =>
           /\ Len(users) = Len(pre)
           /\ \A i \in 1..Len(users) :
                  IF users[i].username = req.key
                  THEN HashOf(req.body.newPassword, users[i].password)
                  ELSE users[i].password = pre[i].password
    /\ (req.op = "updateName") => PasswordsKept
    /\ (req.op = "deleteUser" /\ resp.status = 200) =>
           \E i \in 1..Len(pre) : users = Without(pre, i)
    /\ (req.op \in {"register", "updatePassword", "deleteUser"} /\ resp.status >= 400) =>
           users = pre

\* a password change has replaced the hash of the password of the registration
C22_Witness ==
    /\ req.op = "updatePassword"
    /\ resp.status = 200
    /\ \E i \in 1..Len(users) :
           /\ users[i].username = req.key
           /\ HashOf("pw", pre[i].password)
           /\ HashOf("px", users[i].password)

\* a password change or rename that carries its new value, or a delete
Mutation ==
    \/ req.op = "updatePassword" /\ ~Not(req.body, "newPassword")
    \/ req.op = "updateName" /\ ~Not(req.body, "newName")
    \/ req.op = "deleteUser"

\* 404 and no change when the request located no user; otherwise success and
\* a change of one located user alone: its password, its name, or its removal
ChangesOnly(located) ==
    IF located = {}
    THEN resp.status = 404 /\ users = pre
    ELSE /\ resp.status = 200
         /\ \E i \in located :
                IF req.op = "deleteUser"
                THEN users = Without(pre, i)
                ELSE /\ Len(users) = Len(pre)
                     /\ \A j \in 1..Len(pre) : j # i => users[j] = pre[j]
                     /\ IF req.op = "updateName"
                        THEN users[i] = [pre[i] EXCEPT !.name = req.body.newName]
                        ELSE /\ HashOf(req.body.newPassword, users[i].password)
                             /\ [users[i] EXCEPT !.password = pre[i].password] = pre[i]

\* C23 as stated: rename, password change and delete each locate the user by
\* a key that matches the username or the email; a match changes only that
\* user, no match fails as not found and changes no user.
C23_LookupByUsernameOrEmail ==
    Mutation =>
        ChangesOnly({i \in 1..Len(pre) : pre[i].username = req.key \/ pre[i].email = req.key})

\* C23 amended: delete locates the user by a key that matches the username
\* or the email, rename and password change by the username alone; a match
\* changes only that user, no match fails as not found and changes no user.
C23_LookupByUsername ==
    Mutation =>
        ChangesOnly({i \in 1..Len(pre) :
                        \/ pre[i].username = req.key
                        \/ (req.op = "deleteUser" /\ pre[i].email = req.key)})

\* a rename or password change keyed by the email of a user is not found
C23_Witness ==
    /\ req.op \in {"updatePassword", "updateName"}
    /\ Mutation
    /\ \E i \in 1..Len(pre) : pre[i].email = req.key
    /\ \A i \in 1..Len(pre) : pre[i].username # req.key
    /\ resp.status = 404
    /\ users = pre

\* the numeric parameters of the query that are not numbers
MalformedParams(query) == {f \in DOMAIN query : query[f] \notin DOMAIN Numerals}

\* C24: a catalog query with a numeric parameter that is not a well-formed
\* number fails with a query error (a client fault), and one with
\* well-formed parameters succeeds, with an empty result when no document
\* matches; stated for top-rated with limit and minRatings.
C24_MalformedQueryFails ==
    req.op = "topRated" =>
        IF MalformedParams(req.query) # {}
        THEN resp.status \in ClientFault
        ELSE /\ resp.status = 200
             /\ (\A id \in ProductIds : products[id] = Null) =>
                    resp.json.total = 0 /\ resp.json.products = <<>>

(* ======================================================================= *)
(* Product writes beside the rating operations, and a store that fails     *)
(* ======================================================================= *)

\* a request during which the call of the persistence layer is rejected
Rejected(request) == request @@ [persistence |-> "rejected"]

\* router.post("/"): product.save() is rejected and the catch answers
CreateRejected ==
    LET request == Rejected([op |-> "create", complete |-> TRUE]) IN
    Handled(request, [status |-> 400, error |-> "Product creation failed."], products)

\* router.post("/:id/rate"): findById or save() is rejected and the catch answers
RateRejected(id, body) ==
    /\ ~InvalidRate(body)
    /\ Handled(Rejected([op |-> "rate", id |-> id, body |-> body, at |-> now]),
               [status |-> 500, error |-> "Rating failed."], products)

\* bodies of PUT /:id: any of the rating fields of the product, or none
UpdateBodies ==
    {Restrict(b, D) : b \in [totalRatings : {3}, avgRating : {Divide(Num(5), 1)},
                             ratings : {<<>>}],
                      D \in SUBSET {"totalRatings", "avgRating", "ratings"}}

\* router.put("/:id"): findByIdAndUpdate sets the fields of the body on the
\* stored document; no save() and so no hook runs
UpdateProduct(id, body, rejected) ==
    LET request == [op |-> "update", id |-> id, body |-> body]
        product == findById(id)
    IN
    IF rejected
    THEN Handled(Rejected(request), [status |-> 400, error |-> "Update failed."], products)
    ELSE IF product = Null
    THEN Handled(request, [status |-> 404, error |-> "Product not found."], products)
    ELSE LET updated == [f \in DOMAIN product |-> IF Has(body, f) THEN body[f] ELSE product[f]]
         IN  Handled(request, [status |-> 200, json |-> updated],
                     [products EXCEPT ![id] = updated])

\* the products of a bulk body: with all required fields or not, and with
\* the rating fields they carry
BulkItems ==
    {[complete |-> TRUE, fields |-> <<>>],
     [complete |-> TRUE, fields |-> [totalRatings |-> 3]],
     [complete |-> TRUE,
      fields |-> [ratings |-> <<[userId |-> "a1", rating |-> Num(5), review |-> "",
                                 createdAt |-> 0]>>]],
     [complete |-> FALSE, fields |-> <<>>]}

\* bulk bodies: an array of products, possibly empty, or no array
BulkBodies ==
    {Array(<<>>), NoArray} \cup {Array(<<item>>) : item \in BulkItems}

\* router.post("/bulk"): insertMany builds the documents with the defaults of
\* the schema and inserts them; no save() and so no hook runs
Bulk(body, rejected) ==
    LET request == [op |-> "bulk", body |-> body] IN
    IF ~body.array \/ Len(body.items) = 0
    THEN Handled(request, [status |-> 400, error |-> "Please provide an array of products."],
                 products)
    ELSE IF \E i \in 1..Len(body.items) : ~body.items[i].complete
    THEN Handled(request, [status |-> 400, error |-> "Missing required fields in some products."],
                 products)
    ELSE IF rejected
    THEN Handled(Rejected(request), [status |-> 500, error |-> "Bulk creation failed."],
                 products)
    ELSE \E id \in ProductIds :
            /\ products[id] = Null
            /\ LET fields == body.items[1].fields
                   created == [f \in DOMAIN NewProduct |->
                                  IF Has(fields, f) THEN fields[f] ELSE NewProduct[f]]
               IN  Handled(request, [status |-> 201, json |-> <<created>>],
                           [products EXCEPT ![id] = created])

NextWrites ==
    \/ Created(AssignedIds, TRUE)
    \/ CreateRejected
    \/ \E id \in AssignedIds, body \in TopBodies : Rate(id, body)
    \/ \E id \in AssignedIds, body \in TopBodies : RateRejected(id, body)
    \/ \E id \in ProductIds, body \in UpdateBodies, rejected \in BOOLEAN :
           UpdateProduct(id, body, rejected)
    \/ \E body \in BulkBodies, rejected \in BOOLEAN : Bulk(body, rejected)

SpecWrites == Init /\ [][NextWrites]_vars

\* the status of a server-fault response
ServerFault == 500..599

\* C25: a request during which the persistence layer fails is answered, once,
\* with an internal error (5xx) and is not retried: the store is as it was.
\* This holds for every handler, product create and product update included.
C25_PersistenceFailureIsInternalError ==
    "persistence" \in DOMAIN req =>
        /\ resp.status \in ServerFault
        /\ "error" \in DOMAIN resp
        /\ products = pre

\* C27: product update with an arbitrary body and bulk insert leave every
\* stored product with totalRatings equal to the length of its ratings and
\* avgRating equal to their mean, 0 when it has none.
C27_OtherWritesKeepAggregates ==
    (req.op \in {"update", "bulk"}) =>
        \A id \in ProductIds :
            products[id] # Null =>
                /\ products[id].totalRatings = Len(products[id].ratings)
                /\ products[id].avgRating = Mean(products[id].ratings)

\* C26: whatever the bodies of the upsert requests, every stored rating
\* entry has a userId and a rating that is one of the integers 1 to 5.
C26_RatingsAreIntegers ==
    \A id \in ProductIds :
        products[id] # Null =>
            \A i \in 1..Len(products[id].ratings) :
                /\ products[id].ratings[i].userId \in ObjectIds
                /\ products[id].ratings[i].rating \in {Num(n) : n \in 1..5}

(***************************************************************************)
(* Upserts of one user in flight at the same time                          *)
(***************************************************************************)
\* the user who sends both requests
SameUser == [id |-> "a1", lower |-> TRUE]

NextSame ==
    \/ Created(AssignedIds, TRUE)
    \/ \E p \in Procs, id \in AssignedIds :
           \E body \in {b \in TopBodies : b.userId = SameUser} : RateRead(p, id, body)
    \/ \E p \in Procs : Save(p)

SpecSame == Init /\ [][NextSame]_vars

\* C28: with two upserts of the same user on the same product in flight at
\* the same time, each a read followed later by a write, the stored product
\* still has at most one rating entry of that user.
C28_SameUserOneEntry ==
    \A id \in ProductIds :
        products[id] # Null =>
            \A i, j \in 1..Len(products[id].ratings) :
                products[id].ratings[i].userId = products[id].ratings[j].userId => i = j

(***************************************************************************)
(* Registrations in flight at the same time                                *)
(***************************************************************************)
\* userSchema declares username and email unique: the collection has a
\* unique index on each, and an insert with a value already there is
\* rejected with a duplicate key error (E11000)
DuplicateKey(collection, doc) ==
    \E i \in 1..Len(collection) :
        collection[i].username = doc.username \/ collection[i].email = doc.email

\* an insert into a collection that has no unique index
insertUnindexed(collection, doc) == [rejected |-> FALSE, collection |-> Append(collection, doc)]

\* the insert that newUser.save() sends
insertOne(collection, doc) ==
    IF DuplicateKey(collection, doc)
    THEN [rejected |-> TRUE, collection |-> collection]
    ELSE [rejected |-> FALSE, collection |-> Append(collection, doc)]

\* router.post('/register') up to the call of newUser.save()
RegisterRead(p, variant, body) ==
    LET request == [op |-> "register", variant |-> variant, body |-> body]
        invalid == \/ \E f \in RegisterFields \ {"projects"} : Not(body, f)
                   \/ ~Has(body, "projects")
                   \/ ~body.projects.array
    IN
    /\ inflight[p] = Idle
    /\ IF invalid
       THEN Answered(request,
                     IF Declares(variant)
                     THEN [status |-> 400, success |-> FALSE,
                           message |-> "Missing or invalid fields in request body"]
                     ELSE handleError("Validation failed"),
                     users)
       ELSE LET existingUser ==
                    findOne({i \in 1..Len(users) :
                                users[i].username = body.username \/ users[i].email = body.email})
            IN  IF existingUser # Null
                THEN Answered(request,
                              IF Declares(variant)
                              THEN [status |-> 409, success |-> FALSE,
                                    message |-> "Username or email already exists"]
                              ELSE handleError("User registration failed"),
                              users)
                ELSE \E salt \in Salts :
                        LET newUser == [name |-> body.name, username |-> body.username,
                                        email |-> body.email,
                                        password |-> hash(body.password, salt),
                                        role |-> body.role, projects |-> body.projects.items]
                        IN  /\ inflight' = [inflight EXCEPT ![p] =
                                               [op |-> "register", request |-> request,
                                                newUser |-> newUser]]
                            /\ UNCHANGED <<products, now, req, resp, pre, users, metrics>>

\* await newUser.save() returns or throws, and the handler answers
RegisterSave(p) ==
    LET call == inflight[p] IN
    /\ call.op = "register"
    /\ LET inserted == insertOne(users, call.newUser) IN
       /\ req' = call.request
       /\ pre' = users
       /\ users' = inserted.collection
       /\ resp' = IF ~inserted.rejected
                  THEN [status |-> 201, success |-> TRUE,
                        message |-> "User registered successfully"]
                  ELSE IF Declares(call.request.variant)
                  THEN [status |-> 500, success |-> FALSE,
                        message |-> "Error registering new user"]
                  ELSE handleError("Error registering user")
    /\ inflight' = [inflight EXCEPT ![p] = Idle]
    /\ UNCHANGED <<products, now, metrics>>

NextRace ==
    \/ \E p \in Procs, variant \in {"userRoutes.js", "part_006"},
          body \in AccountBodies \cup {<<>>} : RegisterRead(p, variant, body)
    \/ \E p \in Procs : RegisterSave(p)

SpecRace == Init /\ [][NextRace]_vars

\* C29: whatever the interleaving of registrations in flight at the same
\* time, each an existence check followed later by a save, no two stored
\* users have the same username or the same email.
C29_UniqueUsers ==
    \A i, j \in 1..Len(users) :
        (users[i].username = users[j].username \/ users[i].email = users[j].email) => i = j

\* a registration passed the existence check, and its save was rejected
\* because a registration of the same username or email was saved in between
C29_Witness ==
    /\ req.op = "register"
    /\ resp.status = 500
    /\ resp.message \in {"Error registering user", "Error registering new user"}
    /\ users = pre
    /\ \E i \in 1..Len(users) :
           users[i].username = req.body.username \/ users[i].email = req.body.email

(***************************************************************************)
(* The counters of the login handler                                       *)
(***************************************************************************)
\* C30: in the handler with counters, successful_logins counts the login
\* requests answered with success: it goes up by one with every such answer
\* and with no other, and failed_login_attempts does not go up with a request
\* answered with success.
C30_CountersMatchResponses ==
    [][/\ (metrics'.successful_logins # metrics.successful_logins
              => /\ req'.op = "login"
                 /\ "success" \in DOMAIN resp' /\ resp'.success
                 /\ metrics'.successful_logins = metrics.successful_logins + 1)
       /\ (metrics'.failed_login_attempts # metrics.failed_login_attempts
              => ~("success" \in DOMAIN resp' /\ resp'.success))
       /\ ((metrics' = metrics /\ (req' # req \/ resp' # resp)
               /\ req'.op = "login" /\ req'.variant = "userRoutes.js")
              => ~("success" \in DOMAIN resp' /\ resp'.success))]_vars

====
